---- MODULE Spec2Model ----
(***************************************************************************)
(* Model of the acquisitions API: the auth controllers (signup, signin,    *)
(* signout), the auth service (createUser, authenticateUser, hashPassword, *)
(* comparePassword), the cookie helper, formatValidator, and the           *)
(* admission gate (securityMiddleware).                                    *)
(*                                                                         *)
(* A handler is an async function: the code between two awaits runs        *)
(* without interleaving, so every action below is one such stretch, from   *)
(* the resolution of one await to the next await (or to the end).          *)
(***************************************************************************)
EXTENDS Integers, Sequences, FiniteSets, TLC

(***************************************************************************)
(* Bounds of the model.                                                    *)
(***************************************************************************)
\* number of controller executions (requests to /sign-up, /sign-in, /sign-out)
NumReq == 3

Reqs == 1..NumReq

(***************************************************************************)
(* Inputs.                                                                 *)
(***************************************************************************)
\* what safeParse hands back for a body that fails the schema
InvalidBodies ==
  { [success |-> FALSE, issues |-> <<"Invalid email">>] }

\* what signUpSchema.safeParse hands back for a body that passes
SignupData ==
  { [name |-> "Al", email |-> "a@x.io", password |-> "Secret1", role |-> "admin"],
    [name |-> "Bo", email |-> "b@x.io", password |-> "Secret2", role |-> "user"] }

ValidSignupBodies == { [success |-> TRUE, data |-> d] : d \in SignupData }

\* what signInSchema.safeParse hands back for a body that passes
SigninData ==
  { [email |-> "a@x.io", password |-> "Secret1"],
    [email |-> "a@x.io", password |-> "Secret2"] }

ValidSigninBodies == { [success |-> TRUE, data |-> d] : d \in SigninData }

NoBody == [none |-> TRUE]
NoError == [name |-> "none", message |-> ""]
NoUser == [none |-> TRUE]
NoCookie == [op |-> "none"]
NoToken == [none |-> TRUE]
NoInput == [success |-> FALSE, issues |-> <<>>]

Err(name, message) == [name |-> name, message |-> message]

VARIABLES
  users,   \* the users relation: a sequence of rows, row i has id i
  ctl,     \* ctl[r]: the state of controller execution r
  jar,     \* the client's `token` cookie (NoCookie when it holds none)
  gate,    \* gate[g]: the state of admission-gate execution g
  hits,    \* the decision service's sliding-window count per rule name
  nodeEnv  \* process.env.NODE_ENV, read-only after startup

vars == <<users, ctl, jar, gate, hits, nodeEnv>>
authVars == <<users, ctl, jar>>
gateVars == <<gate, hits>>

(***************************************************************************)
(* Express response and next().                                            *)
(***************************************************************************)
NewRes ==
  [status |-> 0, sent |-> FALSE, sends |-> 0, body |-> NoBody, cookie |-> NoCookie]

IdleCtl ==
  [kind |-> "none", pc |-> "idle", input |-> NoInput, res |-> NewRes,
   nextCalls |-> 0, nextError |-> NoError, caught |-> NoError, log |-> <<>>,
   calls |-> <<>>, user |-> NoUser, hash |-> "", token |-> NoToken,
   created |-> 0]

\* logger.<level>(text)
Log(c, level, text) == [c EXCEPT !.log = Append(@, <<level, text>>)]

\* res.status(s)
Status(c, s) == [c EXCEPT !.res.status = s]

\* res.json(body): the response is sent, the handler's work is over
Json(c, body) ==
  [c EXCEPT !.res.body = body, !.res.sent = TRUE, !.res.sends = @ + 1,
            !.pc = "done"]

\* next(error)
NextError(c, error) ==
  [c EXCEPT !.nextCalls = @ + 1, !.nextError = error, !.pc = "done"]

\* history: a call to a collaborator (the store, bcrypt, the token issuer,
\* the decision service) and what came back
Call(c, name, result) == [c EXCEPT !.calls = Append(@, <<name, result>>)]

\* how often execution c called collaborator `name`
Calls(c, name) == Cardinality({ i \in 1..Len(c.calls) : c.calls[i][1] = name })

(***************************************************************************)
(* The collaborators the auth service calls.                               *)
(***************************************************************************)
\* bcrypt.hash(password, 10): one-way, so the hash is a value of its own
BcryptHash(password) == "$2b$10$" \o password

\* bcrypt.compare(password, hashedPassword)
BcryptCompare(password, hashedPassword) == BcryptHash(password) = hashedPassword

\* db.select().from(users).where(eq(users.email, email)).limit(1)
SelectByEmail(rows, email) ==
  LET found == SelectSeq(rows, LAMBDA u : u.email = email)
  IN IF Len(found) > 0 THEN <<found[1]>> ELSE <<>>

\* the unique constraint of users.email
UniqueViolation(rows, email) == \E i \in 1..Len(rows) : rows[i].email = email

\* the row db.insert(users).values({name, email, password, role}) writes
NewRow(rows, values) ==
  [id |-> Len(rows) + 1, name |-> values.name, email |-> values.email,
   password |-> values.password, role |-> values.role,
   created_at |-> "now", updated_at |-> "now"]

\* .returning({id, name, email, role, created_at})
Returning(row) ==
  [id |-> row.id, name |-> row.name, email |-> row.email, role |-> row.role,
   created_at |-> row.created_at]

\* jwttoken.sign(payload): the signed token carries the payload, valid 1h
JwtSign(payload) == [payload |-> payload, expiresIn |-> "1h"]

(***************************************************************************)
(* utils/cookies.js                                                        *)
(***************************************************************************)
NodeEnvs == {"production", "development"}

\* {...a, ...b}
Spread(a, b) ==
  [k \in DOMAIN a \cup DOMAIN b |-> IF k \in DOMAIN b THEN b[k] ELSE a[k]]

NoOptions == [k \in {} |-> TRUE]

cookies_getOptions(env) ==
  [httpOnly |-> TRUE, secure |-> (env = "production"), sameSite |-> "Lax",
   maxAge |-> 15 * 60 * 1000]

\* cookies.set(res, name, value, options): res.cookie(name, value, {...})
cookies_set(c, env, name, value, options) ==
  [c EXCEPT !.res.cookie =
     [op |-> "set", name |-> name, value |-> value,
      options |-> Spread(cookies_getOptions(env), options)]]

\* mutant: clear passes only the caller's options on
cookies_clear_bare(c, env, name, options) ==
  [c EXCEPT !.res.cookie =
     [op |-> "clear", name |-> name, value |-> NoToken, options |-> options]]

\* cookies.clear(res, name, options): res.clearCookie(name, {...})
cookies_clear(c, env, name, options) ==
  [c EXCEPT !.res.cookie =
     [op |-> "clear", name |-> name, value |-> NoToken,
      options |-> Spread(cookies_getOptions(env), options)]]

\* the client applies the Set-Cookie header of a response it receives
ClientJar(old, c) ==
  IF c.res.sent /\ c.res.cookie.op = "set" /\ c.res.cookie.name = "token"
    THEN c.res.cookie
  ELSE IF c.res.sent /\ c.res.cookie.op = "clear" /\ c.res.cookie.name = "token"
    THEN NoCookie
  ELSE old

(***************************************************************************)
(* utils/format.js                                                         *)
(***************************************************************************)
\* The parameter is `schema`; the body reads `errors`, an identifier bound
\* nowhere in the module, so evaluating `!errors` throws a ReferenceError
\* before any of the three returns is reached.
formatValidator(schema) ==
  [threw |-> TRUE, error |-> Err("ReferenceError", "errors is not defined"),
   value |-> ""]

(***************************************************************************)
(* controllers/auth.controller.js and services/auth.service.js             *)
(***************************************************************************)
Outcomes == {"ok", "fault"}

\* mutant: the response hands out the user object it holds, as it is
PublicUser_whole(user) == user

\* the public user object both controllers put in the response
PublicUser(user) ==
  [id |-> user.id, name |-> user.name, email |-> user.email, role |-> user.role]

\* the claims both controllers sign
TokenPayload(user) == [id |-> user.id, email |-> user.email, role |-> user.role]

\* mutant: the 409 branch of signup's catch lacks its `return`
signup_catch_noReturn(c, error) ==
  LET c1 == Log([c EXCEPT !.caught = error], "error", "Signup error")
  IN IF error.message = "user already exists"
       THEN NextError(Json(Status(c1, 409), [error |-> "User already exists"]), error)
       ELSE NextError(c1, error)

\* signup's catch block
signup_catch(c, error) ==
  LET c1 == Log([c EXCEPT !.caught = error], "error", "Signup error")
  IN IF error.message = "user already exists"
       THEN Json(Status(c1, 409), [error |-> "User already exists"])
       ELSE NextError(c1, error)

\* mutant: signin's catch answers every error as a credential failure
signin_catch_all401(c, error) ==
  LET c1 == Log([c EXCEPT !.caught = error], "error", "Signin error")
  IN Json(Status(c1, 401), [error |-> "Invalid email or password"])

\* signin's catch block
signin_catch(c, error) ==
  LET c1 == Log([c EXCEPT !.caught = error], "error", "Signin error")
  IN IF error.message = "invalid credentials"
       THEN Json(Status(c1, 401), [error |-> "Invalid email or password"])
       ELSE NextError(c1, error)

\* the catch block of the controller that execution c runs
controller_catch(c, error) ==
  IF c.kind = "signup" THEN signup_catch(c, error) ELSE signin_catch(c, error)

\* createUser's catch block: log, rethrow (into signup's catch)
createUser_catch(c, e) == signup_catch(Log(c, "error", "Create user error"), e)

\* authenticateUser's catch block: log unless the sentinel, rethrow
authenticateUser_catch(c, e) ==
  IF e.message = "invalid credentials"
    THEN signin_catch(c, e)
    ELSE signin_catch(Log(c, "error", "Authenticate user error"), e)

\* the 400 branch of signup and signin: res.status(400) is evaluated, then the
\* argument of .json(...), which calls formatValidator
ValidationFailed(c) ==
  LET c1 == Status(c, 400)
      details == formatValidator(c.input)
  IN IF details.threw
       THEN controller_catch(c1, details.error)
       ELSE Json(c1, [error |-> "validation failed", details |-> details.value])

\* mutant: the cookie is set on the response before the token is signed
SignAndRespond_cookieFirst(c, env, user, signOutcome, status, logText, message) ==
  LET token == JwtSign(TokenPayload(user))
      c0 == cookies_set(c, env, "token", token, NoOptions)
  IN IF signOutcome = "fault"
       THEN controller_catch(Call(c0, "sign", "fault"),
                             Err("Error", "Failed to authenticate token"))
       ELSE LET c1 == Call(c0, "sign", "ok")
                c2 == [c1 EXCEPT !.token = token]
                c3 == Log(c2, "info", logText)
            IN Json(Status(c3, status),
                    [message |-> message, user |-> PublicUser(user)])

\* the tail both controllers share once they hold the user: sign, set the
\* cookie, log, respond
SignAndRespond(c, env, user, signOutcome, status, logText, message) ==
  IF signOutcome = "fault"
    THEN controller_catch(Call(c, "sign", "fault"),
                          Err("Error", "Failed to authenticate token"))
    ELSE LET token == JwtSign(TokenPayload(user))
                c1 == Call(c, "sign", "ok")
                c2 == cookies_set([c1 EXCEPT !.token = token], env, "token",
                                  token, NoOptions)
                c3 == Log(c2, "info", logText)
            IN Json(Status(c3, status),
                    [message |-> message, user |-> PublicUser(user)])

\* signup, up to the first await (db.select in createUser)
signup_start(body) ==
  LET c == [IdleCtl EXCEPT !.kind = "signup", !.input = body]
  IN IF ~body.success
       THEN ValidationFailed(c)
       ELSE [c EXCEPT !.pc = "select"]

\* createUser, from the result of db.select to the await of hashPassword
createUser_select(c, rows, dbOutcome) ==
  IF dbOutcome = "fault"
    THEN createUser_catch(Call(c, "select", "fault"),
                          Err("DatabaseError", "connection failed"))
    ELSE IF Len(SelectByEmail(rows, c.input.data.email)) > 0
      THEN createUser_catch(Call(c, "select", "row"),
                            Err("Error", "user already exists"))
      ELSE [Call(c, "select", "none") EXCEPT !.pc = "hash"]

\* hashPassword, from the result of bcrypt.hash to the await of db.insert
createUser_hash(c, hashOutcome) ==
  IF hashOutcome = "fault"
    THEN createUser_catch(
           Log(Call(c, "hash", "fault"), "error", "Password hashing error"),
           Err("Error", "Password hashing failed"))
    ELSE [Call(c, "hash", "ok") EXCEPT
            !.hash = BcryptHash(c.input.data.password), !.pc = "insert"]

\* the values createUser inserts
InsertValues(c) ==
  [name |-> c.input.data.name, email |-> c.input.data.email,
   password |-> c.hash, role |-> c.input.data.role]

\* mutant: the store has no unique constraint on email
InsertWrites_noConstraint(c, rows, dbOutcome) == dbOutcome = "ok"

\* whether the insert of execution c writes a row
InsertWrites(c, rows, dbOutcome) ==
  dbOutcome = "ok" /\ ~UniqueViolation(rows, c.input.data.email)

\* mutant: createUser does not rethrow what the insert threw and returns the
\* values it meant to insert
createUser_insert_swallow(c, env, rows, dbOutcome, signOutcome) ==
  LET newUser == Returning(NewRow(rows, InsertValues(c)))
      result == IF dbOutcome = "fault" THEN "fault"
                ELSE IF UniqueViolation(rows, c.input.data.email) THEN "duplicate"
                ELSE "ok"
      c1 == Call(c, "insert", result)
      c2 == [c1 EXCEPT !.user = newUser,
                       !.created = IF result = "ok" THEN newUser.id ELSE 0]
  IN SignAndRespond(c2, env, newUser, signOutcome, 201, "User signed up",
                    "User signed up successfully")

\* createUser from the result of db.insert, then signup to its end
createUser_insert(c, env, rows, dbOutcome, signOutcome) ==
  IF dbOutcome = "fault"
    THEN createUser_catch(Call(c, "insert", "fault"),
                          Err("DatabaseError", "connection failed"))
    ELSE IF UniqueViolation(rows, c.input.data.email)
      THEN createUser_catch(Call(c, "insert", "duplicate"),
             Err("DatabaseError", "duplicate key value violates unique constraint"))
      ELSE LET newUser == Returning(NewRow(rows, InsertValues(c)))
                  c1 == Call(c, "insert", "ok")
                  c2 == Log([c1 EXCEPT !.user = newUser, !.created = newUser.id],
                            "info", "New user created")
              IN SignAndRespond(c2, env, newUser, signOutcome, 201,
                                "User signed up",
                                "User signed up successfully")

\* signin, up to the first await (db.select in authenticateUser)
signin_start(body) ==
  LET c == [IdleCtl EXCEPT !.kind = "signin", !.input = body]
  IN IF ~body.success
       THEN ValidationFailed(c)
       ELSE [c EXCEPT !.pc = "select"]

\* mutant: an unknown email is reported with an error of its own
authenticateUser_select_notFound(c, rows, dbOutcome) ==
  LET found == SelectByEmail(rows, c.input.data.email)
  IN IF dbOutcome = "fault"
       THEN authenticateUser_catch(Call(c, "select", "fault"),
                                   Err("DatabaseError", "connection failed"))
       ELSE IF Len(found) = 0
         THEN authenticateUser_catch(
                Log(Call(c, "select", "none"), "info",
                    "Authentication failed: user not found"),
                Err("Error", "user not found"))
         ELSE [Call(c, "select", "row") EXCEPT !.user = found[1], !.pc = "compare"]

\* authenticateUser, from the result of db.select to the await of comparePassword
authenticateUser_select(c, rows, dbOutcome) ==
  LET found == SelectByEmail(rows, c.input.data.email)
  IN IF dbOutcome = "fault"
       THEN authenticateUser_catch(Call(c, "select", "fault"),
                                   Err("DatabaseError", "connection failed"))
       ELSE IF Len(found) = 0
         THEN authenticateUser_catch(
                Log(Call(c, "select", "none"), "info",
                    "Authentication failed: user not found"),
                Err("Error", "invalid credentials"))
         ELSE [Call(c, "select", "row") EXCEPT !.user = found[1], !.pc = "compare"]

\* const { password: _password, ...safeUser } = user
SafeUser(user) == [k \in DOMAIN user \ {"password"} |-> user[k]]

\* authenticateUser from the result of bcrypt.compare, then signin to its end
authenticateUser_compare(c, env, compareOutcome, signOutcome) ==
  IF compareOutcome = "fault"
    THEN authenticateUser_catch(
           Log(Call(c, "compare", "fault"), "error", "Password comparison error"),
           Err("Error", "Password comparison failed"))
    ELSE IF ~BcryptCompare(c.input.data.password, c.user.password)
      THEN authenticateUser_catch(
             Log(Call(c, "compare", "false"), "info",
                 "Authentication failed: invalid password"),
             Err("Error", "invalid credentials"))
      ELSE LET safeUser == SafeUser(c.user)
                  c1 == Call(c, "compare", "true")
                  c2 == Log([c1 EXCEPT !.user = safeUser], "info",
                            "User authenticated")
              IN SignAndRespond(c2, env, safeUser, signOutcome, 200,
                                "User signed in",
                                "User signed in successfully")

\* mutant: signout clears a cookie of another name
signout_otherName(env) ==
  LET c == [IdleCtl EXCEPT !.kind = "signout"]
      c1 == cookies_clear(c, env, "jwt", NoOptions)
      c2 == Log(c1, "info", "User signed out")
  IN Json(Status(c2, 200), [message |-> "User signed out successfully"])

\* signout: no await, the whole handler is one stretch
signout(env) ==
  LET c == [IdleCtl EXCEPT !.kind = "signout"]
      c1 == cookies_clear(c, env, "token", NoOptions)
      c2 == Log(c1, "info", "User signed out")
  IN Json(Status(c2, 200), [message |-> "User signed out successfully"])

(***************************************************************************)
(* The controller executions as actions.  Executions start in the order of *)
(* their numbers and then interleave freely at their awaits.               *)
(***************************************************************************)
CanStart(r) ==
  /\ ctl[r].pc = "idle"
  /\ IF r = 1 THEN TRUE ELSE ctl[r - 1].pc # "idle"

Step(r, c) ==
  /\ ctl' = [ctl EXCEPT ![r] = c]
  /\ jar' = ClientJar(jar, c)

SignupStart(r) ==
  /\ CanStart(r)
  /\ \E body \in ValidSignupBodies \cup InvalidBodies : Step(r, signup_start(body))
  /\ UNCHANGED <<users, gateVars, nodeEnv>>

SignupSelect(r) ==
  /\ ctl[r].kind = "signup" /\ ctl[r].pc = "select"
  /\ \E dbOutcome \in Outcomes : Step(r, createUser_select(ctl[r], users, dbOutcome))
  /\ UNCHANGED <<users, gateVars, nodeEnv>>

SignupHash(r) ==
  /\ ctl[r].kind = "signup" /\ ctl[r].pc = "hash"
  /\ \E hashOutcome \in Outcomes : Step(r, createUser_hash(ctl[r], hashOutcome))
  /\ UNCHANGED <<users, gateVars, nodeEnv>>

SignupInsert(r) ==
  /\ ctl[r].kind = "signup" /\ ctl[r].pc = "insert"
  /\ \E dbOutcome \in Outcomes, signOutcome \in Outcomes :
       /\ Step(r, createUser_insert(ctl[r], nodeEnv, users, dbOutcome, signOutcome))
       /\ users' = IF InsertWrites(ctl[r], users, dbOutcome)
                     THEN Append(users, NewRow(users, InsertValues(ctl[r])))
                     ELSE users
  /\ UNCHANGED <<gateVars, nodeEnv>>

SigninStart(r) ==
  /\ CanStart(r)
  /\ \E body \in ValidSigninBodies \cup InvalidBodies : Step(r, signin_start(body))
  /\ UNCHANGED <<users, gateVars, nodeEnv>>

SigninSelect(r) ==
  /\ ctl[r].kind = "signin" /\ ctl[r].pc = "select"
  /\ \E dbOutcome \in Outcomes :
       Step(r, authenticateUser_select(ctl[r], users, dbOutcome))
  /\ UNCHANGED <<users, gateVars, nodeEnv>>

SigninCompare(r) ==
  /\ ctl[r].kind = "signin" /\ ctl[r].pc = "compare"
  /\ \E compareOutcome \in Outcomes, signOutcome \in Outcomes :
       Step(r, authenticateUser_compare(ctl[r], nodeEnv, compareOutcome, signOutcome))
  /\ UNCHANGED <<users, gateVars, nodeEnv>>

Signout(r) ==
  /\ CanStart(r)
  /\ Step(r, signout(nodeEnv))
  /\ UNCHANGED <<users, gateVars, nodeEnv>>

(***************************************************************************)
(* middleware/security.middleware.js: the admission gate.                  *)
(***************************************************************************)
\* values of req.user?.role: <<>> is undefined (no user attached), <<"">> an
\* empty role, "moderator" a role the switch does not know
AttachedRoles ==
  { <<>>, <<"">>, <<"admin">>, <<"user">>, <<"guest">>, <<"moderator">> }

\* req.user?.role || 'guest'
RoleOf(attached) ==
  IF attached = <<>> \/ attached = <<"">> THEN "guest" ELSE attached[1]

\* mutant: the limits of admin and user are exchanged
RoleLimit_swapped(role) ==
  CASE role = "admin" -> <<10>>
    [] role = "user" -> <<20>>
    [] role = "guest" -> <<5>>
    [] OTHER -> <<>>

\* the switch: `limit` (<<>> while it is undefined)
RoleLimit(role) ==
  CASE role = "admin" -> <<20>>
    [] role = "user" -> <<10>>
    [] role = "guest" -> <<5>>
    [] OTHER -> <<>>

\* the switch: `message` (<<>> while it is undefined)
RoleMessage(role) ==
  CASE role = "admin" -> <<"Admin rate limit exceeded(20 per min). slow down.">>
    [] role = "user" -> <<"User rate limit exceeded(10 per min). slow down.">>
    [] role = "guest" -> <<"Guest rate limit exceeded(5 per min). slow down.">>
    [] OTHER -> <<>>

\* slidingWindow({mode, interval, max, name})
SlidingWindowRule(role, limit) ==
  [mode |-> "LIVE", interval |-> "1m", max |-> limit,
   name |-> role \o "-rate-limit"]

NoRule == [mode |-> "", interval |-> "", max |-> <<>>, name |-> ""]
NoDecision == [conclusion |-> "", reason |-> "", count |-> 0]

\* what client.protect(req) can resolve to; a decision carries a reason
\* whether it allows or denies, and reasons other than the three the gate
\* looks at exist (an email or a filter rule, for one)
Decisions ==
  [conclusion : {"ALLOW", "DENY"},
   reason : {"BOT", "SHIELD", "RATE_LIMIT", "EMAIL"},
   count : {0}]

isDenied(decision) == decision.conclusion = "DENY"
isBot(decision) == decision.reason = "BOT"
isShield(decision) == decision.reason = "SHIELD"
isRateLimit(decision) == decision.reason = "RATE_LIMIT"

IdleGate ==
  [pc |-> "idle", attached |-> <<>>, role |-> "", limit |-> <<>>,
   message |-> <<>>, rule |-> NoRule, decision |-> NoDecision,
   res |-> NewRes, nextCalls |-> 0, log |-> <<>>, calls |-> <<>>]

\* next()
NextCall(c) == [c EXCEPT !.nextCalls = @ + 1, !.pc = "done"]

\* mutant: the catch block lets the request through (fail-open)
securityMiddleware_catch_open(c) ==
  NextCall(Log(c, "error", "Security middleware error"))

\* the gate's catch block
securityMiddleware_catch(c) ==
  Json(Status(Log(c, "error", "Security middleware error"), 500),
       [error |-> "Internal server error",
        message |-> <<"An error occurred while processing your request.">>])

\* the gate up to the await of client.protect(req)
securityMiddleware_start(attached, buildOutcome) ==
  LET role == RoleOf(attached)
      limit == RoleLimit(role)
      message == RoleMessage(role)
      c == [IdleGate EXCEPT !.attached = attached, !.role = role,
                            !.limit = limit, !.message = message]
  IN IF buildOutcome = "fault"
       THEN securityMiddleware_catch(Call(c, "build", "fault"))
       ELSE [Call(c, "build", "ok") EXCEPT
               !.rule = SlidingWindowRule(role, limit), !.pc = "protect"]

\* mutant: the rate-limit branch lacks its `return`, so next() runs as well
InspectDecision_noReturn(c, decision, inspectFault) ==
  IF inspectFault = 1 THEN securityMiddleware_catch(Call(c, "inspect", "fault"))
  ELSE IF isDenied(decision) /\ isBot(decision)
    THEN Json(Status(Log(c, "warn", "Bot request blocked"), 403),
              [error |-> "Access denied for bots",
               message |-> <<"Your request has been identified as coming from a bot and has been blocked.">>])
  ELSE IF inspectFault = 2 THEN securityMiddleware_catch(Call(c, "inspect", "fault"))
  ELSE IF isDenied(decision) /\ isShield(decision)
    THEN Json(Status(Log(c, "warn", "Shield request blocked"), 403),
              [error |-> "Access denied for bots",
               message |-> <<"Request blocked by Shield.">>])
  ELSE IF inspectFault = 3 THEN securityMiddleware_catch(Call(c, "inspect", "fault"))
  ELSE IF isDenied(decision) /\ isRateLimit(decision)
    THEN NextCall(Json(Status(Log(c, "warn", "Rate limit request blocked"), 429),
              [error |-> "Rate limit exceeded", message |-> c.message]))
  ELSE NextCall(c)

\* the three ifs on the decision and the final next(); inspectFault is the
\* number of the `if` whose condition throws (0: none does)
InspectDecision(c, decision, inspectFault) ==
  IF inspectFault = 1 THEN securityMiddleware_catch(Call(c, "inspect", "fault"))
  ELSE IF isDenied(decision) /\ isBot(decision)
    THEN Json(Status(Log(c, "warn", "Bot request blocked"), 403),
              [error |-> "Access denied for bots",
               message |-> <<"Your request has been identified as coming from a bot and has been blocked.">>])
  ELSE IF inspectFault = 2 THEN securityMiddleware_catch(Call(c, "inspect", "fault"))
  ELSE IF isDenied(decision) /\ isShield(decision)
    THEN Json(Status(Log(c, "warn", "Shield request blocked"), 403),
              [error |-> "Access denied for bots",
               message |-> <<"Request blocked by Shield.">>])
  ELSE IF inspectFault = 3 THEN securityMiddleware_catch(Call(c, "inspect", "fault"))
  ELSE IF isDenied(decision) /\ isRateLimit(decision)
    THEN Json(Status(Log(c, "warn", "Rate limit request blocked"), 429),
              [error |-> "Rate limit exceeded", message |-> c.message])
  ELSE NextCall(c)

\* the gate from the result of client.protect(req) to its end
securityMiddleware_decided(c, protectOutcome, decision, inspectFault) ==
  IF protectOutcome = "fault"
    THEN securityMiddleware_catch(Call(c, "protect", "fault"))
    ELSE InspectDecision([Call(c, "protect", "ok") EXCEPT !.decision = decision],
                         decision, inspectFault)

(***************************************************************************)
(* The decision service as a sliding-window counter: hits[name] is the     *)
(* number of requests the rule `name` has counted in the trailing          *)
(* interval.  A request is counted when it is protected; the oldest one    *)
(* leaves the window as time passes.                                       *)
(***************************************************************************)
\* how far past its rule's max a counter is followed
Over == 1

RuleNames == { RoleOf(a) \o "-rate-limit" : a \in AttachedRoles }

HitCap(rule) == IF rule.max = <<>> THEN Over ELSE rule.max[1] + Over

\* the decision for the count-th request of the window under `rule`
SlidingWindowDecision(count, rule) ==
  [conclusion |-> IF rule.max # <<>> /\ count > rule.max[1]
                    THEN "DENY" ELSE "ALLOW",
   reason |-> "RATE_LIMIT",
   count |-> count]

(***************************************************************************)
(* The gate executions as actions.                                         *)
(***************************************************************************)
\* number of gate executions of a run with an arbitrary decision service
NumGate == 1

Gates == 1..NumGate

CanStartGate(g) ==
  /\ gate[g].pc = "idle"
  /\ IF g = 1 THEN TRUE ELSE gate[g - 1].pc # "idle"

GateStart(g) ==
  /\ CanStartGate(g)
  /\ \E attached \in AttachedRoles, buildOutcome \in Outcomes :
       gate' = [gate EXCEPT ![g] = securityMiddleware_start(attached, buildOutcome)]
  /\ UNCHANGED <<authVars, hits, nodeEnv>>

GateDecided(g) ==
  /\ gate[g].pc = "protect"
  /\ \E protectOutcome \in Outcomes, decision \in Decisions, inspectFault \in 0..3 :
       gate' = [gate EXCEPT ![g] =
         securityMiddleware_decided(gate[g], protectOutcome, decision, inspectFault)]
  /\ UNCHANGED <<authVars, hits, nodeEnv>>

\* callers the sliding-window runs are about
RateRoles == { <<>>, <<"admin">>, <<"user">>, <<"guest">> }

\* The sliding-window runs send their requests one after another through
\* execution 1: the counter is the only state two executions share, and the
\* service updates it in one step.
RateStart ==
  /\ gate[1].pc \in {"idle", "done"}
  /\ \E attached \in RateRoles :
       gate' = [gate EXCEPT ![1] = securityMiddleware_start(attached, "ok")]
  /\ UNCHANGED <<authVars, hits, nodeEnv>>

\* the service counts the request and decides by its window
RateDecided ==
  /\ gate[1].pc = "protect"
  /\ hits[gate[1].rule.name] < HitCap(gate[1].rule)
  /\ LET count == hits[gate[1].rule.name] + 1
     IN /\ hits' = [hits EXCEPT ![gate[1].rule.name] = count]
        /\ gate' = [gate EXCEPT ![1] =
             securityMiddleware_decided(gate[1], "ok",
               SlidingWindowDecision(count, gate[1].rule), 0)]
  /\ UNCHANGED <<authVars, nodeEnv>>

\* time passes: the oldest counted request of a rule leaves the window
RateExpire(name) ==
  /\ hits[name] > 0
  /\ hits' = [hits EXCEPT ![name] = @ - 1]
  /\ UNCHANGED <<authVars, gate, nodeEnv>>

(***************************************************************************)
(* Specifications.                                                         *)
(***************************************************************************)
Init ==
  /\ users = <<>>
  /\ ctl = [r \in Reqs |-> IdleCtl]
  /\ jar = NoCookie
  /\ nodeEnv = "production"   \* the controllers never branch on it
  /\ gate = [g \in Gates |-> IdleGate]
  /\ hits = [n \in RuleNames |-> 0]

\* the controllers
Next ==
  \E r \in Reqs :
    \/ SignupStart(r)
    \/ SignupSelect(r)
    \/ SignupHash(r)
    \/ SignupInsert(r)
    \/ SigninStart(r)
    \/ SigninSelect(r)
    \/ SigninCompare(r)
    \/ Signout(r)

Spec == Init /\ [][Next]_vars

\* the gate in front of a decision service that may answer anything
NextGate == \E g \in Gates : GateStart(g) \/ GateDecided(g)

SpecGate == Init /\ [][NextGate]_vars

\* the gate in front of the sliding-window counter
NextRate ==
  \/ RateStart
  \/ RateDecided
  \/ \E name \in RuleNames : RateExpire(name)

SpecRate == Init /\ [][NextRate]_vars

\* the controllers and the gate side by side: an execution of either shares no
\* state with an execution of the other, so a run holds executions of one kind
NextAll ==
  \/ /\ \A g \in Gates : gate[g].pc = "idle"
     /\ Next
  \/ /\ \A r \in Reqs : ctl[r].pc = "idle"
     /\ NextGate

SpecAll == Init /\ [][NextAll]_vars

(***************************************************************************)
(* The cookie helper on its own: calls of cookies.set and cookies.clear    *)
(* with any per-call options, in either environment mode.                  *)
(***************************************************************************)
\* per-call options a caller may pass
Overrides ==
  { NoOptions,
    [maxAge |-> 60000],
    [secure |-> TRUE],
    [sameSite |-> "Strict"],
    [path |-> "/api"],
    [httpOnly |-> FALSE, maxAge |-> 0] }

CookieCall(kind, options) ==
  [IdleCtl EXCEPT !.kind = kind, !.pc = "done",
                  !.input = [success |-> TRUE, data |-> options]]

CookiesSet(r) ==
  /\ CanStart(r)
  /\ \E options \in Overrides :
       ctl' = [ctl EXCEPT ![r] =
         cookies_set(CookieCall("cookies.set", options), nodeEnv, "token",
                     JwtSign([id |-> 1, email |-> "a@x.io", role |-> "admin"]),
                     options)]
  /\ UNCHANGED <<users, jar, gateVars, nodeEnv>>

CookiesClear(r) ==
  /\ CanStart(r)
  /\ \E options \in Overrides :
       ctl' = [ctl EXCEPT ![r] =
         cookies_clear(CookieCall("cookies.clear", options), nodeEnv, "token",
                       options)]
  /\ UNCHANGED <<users, jar, gateVars, nodeEnv>>

InitCookies ==
  /\ users = <<>>
  /\ ctl = [r \in Reqs |-> IdleCtl]
  /\ jar = NoCookie
  /\ nodeEnv \in NodeEnvs
  /\ gate = [g \in Gates |-> IdleGate]
  /\ hits = [n \in RuleNames |-> 0]

NextCookies == \E r \in Reqs : CookiesSet(r) \/ CookiesClear(r)

SpecCookies == InitCookies /\ [][NextCookies]_vars

(***************************************************************************)
(* The claims.                                                             *)
(***************************************************************************)
Done(c) == c.pc = "done"
Responded(c, status) == c.res.sent /\ c.res.status = status
ValidSignup(c) == c.kind = "signup" /\ c.input.success
ValidSignin(c) == c.kind = "signin" /\ c.input.success
EmailsOfStore == { users[i].email : i \in 1..Len(users) }
SignupEmails == { d.email : d \in SignupData }

\* C1: however signups with valid input and the same email interleave their
\* existence checks and inserts, the store holds at most one record per
\* email and at most one of those signups responds 201.
C1_OneRecordOne201 ==
  /\ \A i, j \in 1..Len(users) : users[i].email = users[j].email => i = j
  /\ \A e \in SignupEmails :
       Cardinality({ r \in Reqs : /\ ValidSignup(ctl[r])
                                  /\ ctl[r].input.data.email = e
                                  /\ Responded(ctl[r], 201) }) <= 1

\* C1 witness: two signups with the same email both passed the existence
\* check, both attempted the insert, and one of them responded 201.
C1_Witness ==
  \E r1, r2 \in Reqs :
    /\ r1 # r2
    /\ ValidSignup(ctl[r1]) /\ ValidSignup(ctl[r2])
    /\ ctl[r1].input.data.email = ctl[r2].input.data.email
    /\ Done(ctl[r1]) /\ Done(ctl[r2])
    /\ Calls(ctl[r1], "insert") = 1 /\ Calls(ctl[r2], "insert") = 1
    /\ Responded(ctl[r1], 201)

\* the signup found its email taken: by its own check or by the store on insert
EmailTaken(c) ==
  /\ ValidSignup(c) /\ Done(c) /\ c.created = 0
  /\ \/ <<"select", "row">> \in { c.calls[i] : i \in 1..Len(c.calls) }
     \/ <<"insert", "duplicate">> \in { c.calls[i] : i \in 1..Len(c.calls) }

\* C2: every signup with valid input that creates no record because its
\* email is taken responds 409 and is not forwarded to the generic error
\* handler, whether the duplicate is found by the check or by the insert.
C2_TakenResponds409 ==
  \A r \in Reqs :
    EmailTaken(ctl[r]) => Responded(ctl[r], 409) /\ ctl[r].nextCalls = 0

\* C3: a signup or signin whose body fails validation responds 400 with the
\* list of validation messages, calls no collaborator, sets no cookie and
\* does not call next.
C3_Invalid400 ==
  \A r \in Reqs :
    (ctl[r].kind \in {"signup", "signin"} /\ Done(ctl[r]) /\ ~ctl[r].input.success)
      => /\ Responded(ctl[r], 400)
         /\ ctl[r].nextCalls = 0
         /\ ctl[r].calls = <<>>
         /\ ctl[r].res.cookie = NoCookie
         /\ "details" \in DOMAIN ctl[r].res.body

\* the signin found no record for its email
SigninAbsent(c) ==
  ValidSignin(c) /\ Done(c) /\ c.calls = << <<"select", "none">> >>

\* the signin found a record whose password does not match
SigninMismatch(c) ==
  ValidSignin(c) /\ Done(c)
    /\ c.calls = << <<"select", "row">>, <<"compare", "false">> >>

\* C4: a signin for an email with no record and a signin with a wrong
\* password end with the same status (401) and the same body, set no cookie
\* and sign no token; they differ only in what is logged.
C4_Indistinguishable401 ==
  /\ \A r \in Reqs :
       (SigninAbsent(ctl[r]) \/ SigninMismatch(ctl[r]))
         => /\ Responded(ctl[r], 401)
            /\ ctl[r].res.body = [error |-> "Invalid email or password"]
            /\ ctl[r].res.cookie = NoCookie
            /\ ctl[r].token = NoToken
            /\ Calls(ctl[r], "sign") = 0
            /\ ctl[r].nextCalls = 0
  /\ \A r1, r2 \in Reqs :
       (SigninAbsent(ctl[r1]) /\ SigninMismatch(ctl[r2]))
         => /\ ctl[r1].res = ctl[r2].res
            /\ ctl[r1].log # ctl[r2].log

\* C4 witness: both runs have happened
C4_Witness ==
  \E r1, r2 \in Reqs : SigninAbsent(ctl[r1]) /\ SigninMismatch(ctl[r2])

\* the gate execution ran to its end without a fault of its own
NoGateFault(c) ==
  Done(c) /\ \A i \in 1..Len(c.calls) : c.calls[i][2] # "fault"

GateFault(c) ==
  Done(c) /\ \E i \in 1..Len(c.calls) : c.calls[i][2] = "fault"

Forwarded(c) == Done(c) /\ c.nextCalls = 1 /\ ~c.res.sent

\* the message the spec gives each tier
TierMessage(role) ==
  IF role = "admin" THEN <<"Admin rate limit exceeded(20 per min). slow down.">>
  ELSE IF role = "user" THEN <<"User rate limit exceeded(10 per min). slow down.">>
  ELSE IF role = "guest" THEN <<"Guest rate limit exceeded(5 per min). slow down.">>
  ELSE <<>>

\* C5: a denied decision is answered 403 when its reason is bot, 403 when it
\* is shield, and 429 with the rate-limit message of the caller's role when
\* it is rate-limit; in all three cases next is not called.  (A role outside
\* the three tiers has no message, and the 429 then carries none.)
C5_DenialsAnswered ==
  \A g \in Gates :
    (NoGateFault(gate[g]) /\ isDenied(gate[g].decision))
      => /\ isBot(gate[g].decision)
              => /\ Responded(gate[g], 403)
                 /\ gate[g].res.body.error = "Access denied for bots"
                 /\ gate[g].nextCalls = 0
         /\ isShield(gate[g].decision)
              => /\ Responded(gate[g], 403)
                 /\ gate[g].res.body.message = <<"Request blocked by Shield.">>
                 /\ gate[g].nextCalls = 0
         /\ isRateLimit(gate[g].decision)
              => /\ Responded(gate[g], 429)
                 /\ gate[g].res.body.error = "Rate limit exceeded"
                 /\ gate[g].res.body.message = TierMessage(gate[g].role)
                 /\ gate[g].nextCalls = 0

\* C5 witness: a user caller was denied for its rate limit and answered 429
C5_Witness ==
  \E g \in Gates :
    /\ NoGateFault(gate[g]) /\ isDenied(gate[g].decision)
    /\ isRateLimit(gate[g].decision)
    /\ gate[g].role = "user"
    /\ Responded(gate[g], 429)

\* C6: when building the rule, the call to the decision service or the
\* inspection of the decision faults, the gate responds 500 and never calls
\* next for that request.
C6_FailClosed ==
  \A g \in Gates :
    GateFault(gate[g]) => Responded(gate[g], 500) /\ gate[g].nextCalls = 0

\* C6 witness: the service allowed the request and the last inspection of
\* the decision threw
C6_Witness ==
  \E g \in Gates :
    /\ Done(gate[g])
    /\ gate[g].decision.conclusion = "ALLOW"
    /\ gate[g].calls = << <<"build", "ok">>, <<"protect", "ok">>, <<"inspect", "fault">> >>
    /\ Responded(gate[g], 500)

\* C7: in front of the sliding-window counter, an admin's request that is
\* one of the first 20 of its window is forwarded and the 21st is answered
\* 429 with the admin message; a guest's request that is below the 5th of
\* its window is forwarded.
C7_AdminWindow ==
  \A g \in Gates :
    Done(gate[g]) =>
      /\ (gate[g].role = "admin" /\ gate[g].decision.count \in 1..20)
            => Forwarded(gate[g])
      /\ (gate[g].role = "admin" /\ gate[g].decision.count = 21)
            => /\ Responded(gate[g], 429)
               /\ gate[g].res.body.message =
                    <<"Admin rate limit exceeded(20 per min). slow down.">>
               /\ gate[g].nextCalls = 0
      /\ (gate[g].role = "guest" /\ gate[g].decision.count \in 1..4)
            => Forwarded(gate[g])

\* C7 witness: the 21st admin request of a window was answered 429 while
\* the window also holds guest requests
C7_Witness ==
  \E g \in Gates :
    /\ Done(gate[g]) /\ gate[g].role = "admin"
    /\ gate[g].decision.count = 21
    /\ hits["admin-rate-limit"] = 21
    /\ hits["guest-rate-limit"] = 4
    /\ Responded(gate[g], 429)

\* C8: whatever role value is attached, the gate uses the attached role if
\* present and guest otherwise, and the rule it builds has a one-minute
\* interval, the name {role}-rate-limit and a max of 5 (guest), 10 (user) or
\* 20 (admin); max and message are never undefined.
C8_RuleOfThreeTiers ==
  \A g \in Gates :
    gate[g].pc \in {"protect", "done"} /\ gate[g].rule # NoRule =>
      /\ gate[g].role = IF gate[g].attached \in {<<>>, <<"">>} THEN "guest"
                        ELSE gate[g].attached[1]
      /\ gate[g].rule.interval = "1m"
      /\ gate[g].rule.name = gate[g].role \o "-rate-limit"
      /\ gate[g].rule.max \in {<<5>>, <<10>>, <<20>>}
      /\ gate[g].role = "guest" => gate[g].rule.max = <<5>>
      /\ gate[g].role = "user" => gate[g].rule.max = <<10>>
      /\ gate[g].role = "admin" => gate[g].rule.max = <<20>>
      /\ gate[g].message # <<>>

\* C9: signout is idempotent.  Every signout call responds 200 and leaves
\* the client without a `token` cookie, whether or not it held one; the call
\* reads nothing of the request and touches neither the store nor the token
\* issuer.
C9_SignoutIdempotent ==
  [][\A r \in Reqs :
       (ctl[r].pc = "idle" /\ ctl'[r].kind = "signout")
         => /\ Responded(ctl'[r], 200)
            /\ ctl'[r].nextCalls = 0
            /\ jar' = NoCookie
            /\ users' = users
            /\ ctl'[r].calls = <<>>
            /\ ctl'[r].token = NoToken]_vars

\* C9 witness: a signup set the cookie, two signouts followed, and the
\* client holds no cookie
C9_Witness ==
  \E r1, r2, r3 \in Reqs :
    /\ r1 < r2 /\ r2 < r3
    /\ ValidSignup(ctl[r1]) /\ Responded(ctl[r1], 201)
    /\ ctl[r1].res.cookie.op = "set"
    /\ ctl[r2].kind = "signout" /\ Responded(ctl[r2], 200)
    /\ ctl[r3].kind = "signout" /\ Responded(ctl[r3], 200)
    /\ jar = NoCookie

\* plaintext passwords and their hashes
Secrets ==
  { d.password : d \in SignupData \cup SigninData }
    \cup { BcryptHash(d.password) : d \in SignupData \cup SigninData }

\* a JSON object of strings (and an id) that holds no secret
LeakFree(object) ==
  /\ "password" \notin DOMAIN object
  /\ \A k \in DOMAIN object \ {"id"} : object[k] \notin Secrets

\* C10: the user object of a 201 or 200 response carries exactly id, name,
\* email and role of the stored record; no response body, cookie or token
\* claim holds the password or its hash, on success or on an error outcome.
C10_PublicUserOnly ==
  \A r \in Reqs :
    /\ (Responded(ctl[r], 201) \/ (ctl[r].kind = "signin" /\ Responded(ctl[r], 200)))
         => /\ DOMAIN ctl[r].res.body = {"message", "user"}
            /\ DOMAIN ctl[r].res.body.user = {"id", "name", "email", "role"}
            /\ ctl[r].res.body.user.id \in 1..Len(users)
            /\ LET row == users[ctl[r].res.body.user.id]
               IN ctl[r].res.body.user =
                    [id |-> row.id, name |-> row.name, email |-> row.email,
                     role |-> row.role]
            /\ LeakFree(ctl[r].res.body.user)
    /\ ctl[r].res.sent
         => \A k \in DOMAIN ctl[r].res.body \ {"user", "details"} :
              ctl[r].res.body[k] \notin Secrets
    /\ ctl[r].token # NoToken
         => /\ DOMAIN ctl[r].token.payload = {"id", "email", "role"}
            /\ LeakFree(ctl[r].token.payload)
    /\ ctl[r].res.cookie.op = "set"
         => ctl[r].res.cookie.value = ctl[r].token

\* C10 witness: a signin answered 200 with the user of a stored record
C10_Witness ==
  \E r \in Reqs :
    /\ ctl[r].kind = "signin" /\ Responded(ctl[r], 200)
    /\ ctl[r].res.body.user.role = "admin"
    /\ ctl[r].res.cookie.op = "set"

\* the attributes the spec fixes for the session cookie
FixedAttributes(env) ==
  [httpOnly |-> TRUE, secure |-> (env = "production"), sameSite |-> "Lax",
   maxAge |-> 900000]

\* the fixed attributes, then the overrides
ExpectedAttributes(env, overrides, attributes) ==
  /\ DOMAIN attributes =
       {"httpOnly", "secure", "sameSite", "maxAge"} \cup DOMAIN overrides
  /\ \A k \in DOMAIN attributes :
       attributes[k] = IF k \in DOMAIN overrides THEN overrides[k]
                       ELSE FixedAttributes(env)[k]

\* C11: in every environment mode and for every set of per-call overrides,
\* cookies.clear passes the attributes cookies.set passes for the same
\* overrides: httpOnly true, secure exactly in production, sameSite Lax, max
\* age 15 minutes, then the overrides.
C11_ClearMatchesSet ==
  /\ \A r \in Reqs :
       ctl[r].kind \in {"cookies.set", "cookies.clear"}
         => /\ ctl[r].res.cookie.name = "token"
            /\ ExpectedAttributes(nodeEnv, ctl[r].input.data,
                                  ctl[r].res.cookie.options)
  /\ \A r1, r2 \in Reqs :
       (/\ ctl[r1].kind = "cookies.set" /\ ctl[r2].kind = "cookies.clear"
        /\ ctl[r1].input.data = ctl[r2].input.data)
         => /\ ctl[r1].res.cookie.options = ctl[r2].res.cookie.options
            /\ ctl[r1].res.cookie.name = ctl[r2].res.cookie.name

\* C11 witness: outside production, a set and a clear with the same
\* override of the max age, and a set and a clear without overrides
C11_Witness ==
  /\ nodeEnv = "development"
  /\ \E r1, r2 \in Reqs :
       /\ ctl[r1].kind = "cookies.set" /\ ctl[r2].kind = "cookies.clear"
       /\ ctl[r1].input.data = [maxAge |-> 60000]
       /\ ctl[r2].input.data = [maxAge |-> 60000]
       /\ ctl[r2].res.cookie.options.maxAge = 60000
       /\ ctl[r2].res.cookie.options.secure = FALSE

\* position of the call <<name, result>> in the history of c (0: not there)
CallAt(c, name, result) ==
  IF \E i \in 1..Len(c.calls) : c.calls[i] = <<name, result>>
    THEN CHOOSE i \in 1..Len(c.calls) : c.calls[i] = <<name, result>>
    ELSE 0

\* the store step of the controller that c runs has succeeded
StoreStep(c) ==
  IF c.kind = "signup" THEN CallAt(c, "insert", "ok") ELSE CallAt(c, "compare", "true")

\* C12: signup and signin set the `token` cookie only after the store step
\* succeeded (row inserted, password matched) and the token was signed over
\* that row's {id, email, role}, and the 2xx response goes out with it; an
\* execution that ends in 400, 401, 409 or a forwarded error sets no cookie.
C12_CookieAfterStoreAndSign ==
  \A r \in Reqs :
    ctl[r].kind \in {"signup", "signin"} =>
      /\ ctl[r].res.cookie # NoCookie =>
           /\ ctl[r].res.cookie.op = "set" /\ ctl[r].res.cookie.name = "token"
           /\ StoreStep(ctl[r]) > 0
           /\ CallAt(ctl[r], "sign", "ok") > StoreStep(ctl[r])
           /\ ctl[r].res.cookie.value = ctl[r].token
           /\ ctl[r].token.payload.id \in 1..Len(users)
           /\ LET row == users[ctl[r].token.payload.id]
              IN /\ row.email = ctl[r].input.data.email
                 /\ ctl[r].token.payload =
                      [id |-> row.id, email |-> row.email, role |-> row.role]
           /\ Responded(ctl[r], IF ctl[r].kind = "signup" THEN 201 ELSE 200)
      /\ (Done(ctl[r]) /\ (ctl[r].res.status \in {400, 401, 409} \/ ctl[r].nextCalls > 0))
           => ctl[r].res.cookie = NoCookie

\* C12 witness: a signup set the cookie and answered 201, a signin answered
\* 401, and a third execution inserted its row and then failed to sign
C12_Witness ==
  \E r1, r2, r3 \in Reqs :
    /\ ctl[r1].kind = "signup" /\ ctl[r1].res.cookie.op = "set"
    /\ Responded(ctl[r1], 201)
    /\ ctl[r2].kind = "signin" /\ Responded(ctl[r2], 401)
    /\ ctl[r3].kind = "signup" /\ CallAt(ctl[r3], "sign", "fault") > 0
    /\ ctl[r3].nextCalls = 1

\* the error message the catch block of c's controller answers itself
DomainMessage(c) ==
  IF c.kind = "signup" THEN "user already exists"
  ELSE IF c.kind = "signin" THEN "invalid credentials"
  ELSE "none"

\* a collaborator of execution c failed
Faulted(c) == \E i \in 1..Len(c.calls) : c.calls[i][2] = "fault"

\* C13: a fault that is not the controller's domain condition (store
\* unavailable, hashing or comparison failure, signing failure) is handed to
\* next(error) exactly once and the controller sends nothing for that request;
\* it is never answered with 409 or 401.
C13_FaultsForwardedOnce ==
  \A r \in Reqs :
    /\ Faulted(ctl[r]) =>
         /\ Done(ctl[r])
         /\ ctl[r].caught # NoError
         /\ ctl[r].caught.message # DomainMessage(ctl[r])
    /\ (ctl[r].caught # NoError /\ ctl[r].caught.message # DomainMessage(ctl[r])) =>
         /\ ctl[r].nextCalls = 1
         /\ ctl[r].nextError = ctl[r].caught
         /\ ~ctl[r].res.sent
         /\ ctl[r].res.body = NoBody
         /\ ctl[r].res.status \notin {401, 409}

\* C13 witness: a signin whose password comparison failed and a signup whose
\* store lookup failed were both forwarded, nothing sent
C13_Witness ==
  \E r1, r2 \in Reqs :
    /\ ctl[r1].kind = "signin" /\ CallAt(ctl[r1], "compare", "fault") > 0
    /\ ctl[r1].nextCalls = 1 /\ ~ctl[r1].res.sent
    /\ ctl[r2].kind = "signup" /\ CallAt(ctl[r2], "select", "fault") > 0
    /\ ctl[r2].nextCalls = 1 /\ ~ctl[r2].res.sent

\* execution r runs signup and takes the step from ctl to ctl'
SignupStepOf(r) == ctl'[r] # ctl[r] /\ ctl'[r].kind = "signup"

\* the step ends signup r on the failure of jwttoken.sign
SignFailed(r) ==
  /\ Done(ctl'[r])
  /\ CallAt(ctl'[r], "sign", "fault") > 0

\* C14 as stated: a signup that does not respond 201 (validation failed, email
\* taken, hashing, insert or token signing failed) adds no record to the store.
C14_No201NoRecord ==
  [][\A r \in Reqs :
       (SignupStepOf(r) /\ ~Responded(ctl'[r], 201)) => users' = users]_vars

\* C14 amended: a signup that does not respond 201 adds no record when
\* validation fails, the email is taken, hashing fails or the insert fails;
\* when token signing fails the record the request inserted stays in the
\* store and the error is forwarded.  No step removes a record.
C14_No201NoRecordUnlessSignFailed ==
  [][/\ Len(users') >= Len(users)
     /\ SubSeq(users', 1, Len(users)) = users
     /\ \A r \in Reqs :
          (SignupStepOf(r) /\ ~Responded(ctl'[r], 201)) =>
            IF SignFailed(r)
              THEN /\ Len(users') = Len(users) + 1
                   /\ users'[Len(users')].email = ctl[r].input.data.email
                   /\ users'[Len(users')].id = ctl'[r].created
                   /\ ctl'[r].nextCalls = 1 /\ ~ctl'[r].res.sent
              ELSE users' = users]_vars

\* C14 witness: a signup whose token signing failed has been forwarded and the
\* record it inserted is in the store
C14_Witness ==
  \E r \in Reqs :
    /\ ctl[r].kind = "signup" /\ Done(ctl[r])
    /\ CallAt(ctl[r], "sign", "fault") > 0
    /\ ~ctl[r].res.sent /\ ctl[r].nextCalls = 1
    /\ ctl[r].created \in 1..Len(users)
    /\ users[ctl[r].created].email = ctl[r].input.data.email

\* C15: the gate calls next only when the decision is not denied; a denied
\* decision is never forwarded, whatever its reason.
C15_DeniedNeverForwarded ==
  \A g \in Gates :
    gate[g].nextCalls > 0 => ~isDenied(gate[g].decision)

\* collaborators a controller or the gate awaits
Collaborators == {"select", "hash", "insert", "compare", "sign", "build", "protect"}

\* execution c (of a controller or of the gate) has ended in exactly one way,
\* or has not ended and has neither responded nor handed control on
OneOutcome(c) ==
  /\ c.res.sends <= 1 /\ c.nextCalls <= 1
  /\ c.res.sent <=> c.res.sends = 1
  /\ IF c.pc = "done"
       THEN c.res.sends + c.nextCalls = 1
       ELSE c.res.sends + c.nextCalls = 0
  /\ \A name \in Collaborators : Calls(c, name) <= 1

\* the next step of controller execution r can be taken
CanGoOn(r) ==
  \/ ctl[r].pc \in {"idle", "done"}
  \/ ENABLED SignupSelect(r) \/ ENABLED SignupHash(r) \/ ENABLED SignupInsert(r)
  \/ ENABLED SigninSelect(r) \/ ENABLED SigninCompare(r)

\* C16: every execution of the gate and of signup, signin and signout ends in
\* exactly one way: one response sent or control handed on once (next for
\* the gate, next(error) for a controller), never both; an execution that
\* has not ended has done neither and is not stuck; and no store lookup,
\* insert, hash, comparison, signing or decision call is made twice.
C16_OneTerminalOutcome ==
  /\ \A r \in Reqs :
       /\ OneOutcome(ctl[r])
       /\ CanGoOn(r)
       /\ ctl[r].nextCalls = 1 => ctl[r].nextError # NoError
  /\ \A g \in Gates :
       /\ OneOutcome(gate[g])
       /\ gate[g].pc = "protect" => ENABLED GateDecided(g)

\* C16 witness: a signup answered 409 after one lookup and handed nothing on,
\* and a signin was forwarded once after its signing failed and sent nothing
C16_Witness ==
  \E r1, r2 \in Reqs :
    /\ ctl[r1].kind = "signup" /\ Responded(ctl[r1], 409)
    /\ ctl[r1].nextCalls = 0 /\ Calls(ctl[r1], "select") = 1
    /\ ctl[r2].kind = "signin" /\ CallAt(ctl[r2], "sign", "fault") > 0
    /\ ctl[r2].nextCalls = 1 /\ ctl[r2].res.sends = 0

====
